---- MODULE Spec2Model ----
(***************************************************************************)
(* Endpoint and EndpointService of src/src/endpoint.rs.                    *)
(*                                                                         *)
(* An Endpoint is { method: Option<Method>, handler: Box<dyn Service> }.   *)
(* The box is modelled as a pointer into `heap`; the boxed value is an     *)
(* EndpointService { service }, whose inner unit is                        *)
(* Extract::new(Handler::new(f)) for a closure f.  Builder calls take the  *)
(* Endpoint by value and return it; service calls return a future that is  *)
(* polled to completion by the caller.                                     *)
(***************************************************************************)
EXTENDS Naturals, Sequences, FiniteSets

VARIABLES endpoints,  \* slot -> Option<Endpoint>: the Endpoint values the application holds
          heap,       \* box address -> Option<EndpointService>: the live boxed services
          hist,       \* slot -> what has been called on the Endpoint so far (history)
          futures,    \* the futures returned by EndpointService::call, in call order
          readiness   \* the last EndpointService::poll_ready: inner result and outer result

vars == <<endpoints, heap, hist, futures, readiness>>

(***************************************************************************)
(* Bounds of the model.                                                    *)
(***************************************************************************)
NumEndpoints == 2   \* Endpoint values alive at once in the builder phase
MaxInFlight == 2    \* futures returned by `call` that the caller holds

Slots == 1..NumEndpoints
ServeSlots == {1}
Addrs == 1..(NumEndpoints + 1)

(***************************************************************************)
(* Vocabulary: Option, Result, Poll, http::Method, http::StatusCode,       *)
(* hyper::Response<Body>.                                                  *)
(***************************************************************************)
None == <<>>
Some(x) == <<x>>

Ok(v) == [ok |-> TRUE, val |-> v]
Err(e) == [ok |-> FALSE, val |-> e]

Pending == [ready |-> FALSE, res |-> Ok("unit")]
Ready(r) == [ready |-> TRUE, res |-> r]

\* the verbs that have a constructor
VerbMethods == {"GET", "POST", "PUT", "PATCH", "DELETE", "HEAD"}
\* the arguments given to method(m) and set_method(m): a verb that has a
\* constructor and one that has none
Methods == {"POST", "OPTIONS"}

NOT_FOUND == 404
OK == 200

EmptyBody == ""

\* Response::builder().status(s).body(b).unwrap()
ResponseBuilder(s, b) == [status |-> s, body |-> b]

\* Response::new(b): the default status is 200 OK
ResponseNew(b) == [status |-> OK, body |-> b]

Requests == {"reqA", "reqB"}
TransportErrors == {"e1", "e2"}

(***************************************************************************)
(* The inner unit, Extract::new(Handler::new(f)) of crate::handler, and    *)
(* the FromRequest / ToResponse capabilities.  Their code is not part of   *)
(* endpoint.rs; they are modelled by their contract: extraction yields the *)
(* handler's arguments or fails with (error, request), the handler runs on *)
(* the arguments, and its return value is converted to a response.         *)
(***************************************************************************)
NotFoundClosure == "not_found"
UserHandlers == {"strict", "flaky"}

HandlerNew(f) == [hnd |-> f]
ExtractNew(h) == [service |-> h]

\* FromRequest for the argument tuple of closure f: "strict" takes an
\* argument that reqB does not carry, "flaky" takes the request's content,
\* the closure of Endpoint::new takes no argument
FromRequest(f, req) ==
  CASE f = "strict" -> IF req = "reqA" THEN Ok(<<req>>) ELSE Err("e1")
    [] f = "flaky" -> Ok(<<req>>)
    [] OTHER -> Ok(<<>>)

\* ToResponse: a Response converts to itself, a string to 200 with that body
to_response(v) == IF v.kind = "response" THEN v.v ELSE ResponseNew(v.v)

\* A bug: the status is left at its default
NotFoundResponseOk == ResponseBuilder(OK, EmptyBody)

\* The response the closure of Endpoint::new resolves to
NotFoundResponse == ResponseBuilder(NOT_FOUND, EmptyBody)

\* Factory::call: running closure f on its extracted arguments.  "strict"
\* returns its argument as a string, "flaky" fails on reqA and returns a
\* Response of its own making on reqB.
FactoryCall(f, args) ==
  CASE f = NotFoundClosure -> Ok([kind |-> "response", v |-> NotFoundResponse])
    [] f = "strict" -> Ok([kind |-> "str", v |-> args[1]])
    [] OTHER -> IF args[1] = "reqA" THEN Err("e2")
                ELSE Ok([kind |-> "response", v |-> ResponseBuilder(NOT_FOUND, args[1])])

\* What the future of Extract::call(req) resolves to
ExtractCall(unit, req) ==
  LET f == unit.service.hnd
      a == FromRequest(f, req)
  IN IF ~a.ok THEN Err(<<a.val, req>>)
     ELSE LET r == FactoryCall(f, a.val)
          IN IF r.ok THEN Ok(to_response(r.val)) ELSE Err(<<r.val, req>>)

\* Extract::call(req): the inner future
ServiceCall(unit, req) == [unit |-> unit, req |-> req]

\* Polling the inner future: Pending while it is suspended, then its result
InnerPoll(fut, isReady) ==
  IF isReady THEN Ready(ExtractCall(fut.unit, fut.req)) ELSE Pending

\* What Extract::poll_ready may return
InnerReadiness ==
  {Pending, Ready(Ok("unit"))}
    \cup {Ready(Err(<<e, r>>)) : e \in TransportErrors, r \in Requests}

(***************************************************************************)
(* Box: Box::new allocates an address that is not live; assigning over a   *)
(* Box field drops the old box after the new one has been allocated.       *)
(***************************************************************************)
Live(h) == {a \in Addrs : h[a] # None}

\* A bug: every box is the same allocation
BoxNewStale(h, obj) == [ptr |-> 1, heap |-> [h EXCEPT ![1] = Some(obj)]]

BoxNew(h, obj) ==
  LET a == CHOOSE x \in Addrs \ Live(h) : \A y \in Addrs \ Live(h) : x <= y
  IN [ptr |-> a, heap |-> [h EXCEPT ![a] = Some(obj)]]

BoxDrop(h, a) == [h EXCEPT ![a] = None]

(***************************************************************************)
(* EndpointService                                                         *)
(***************************************************************************)
EndpointServiceNew(service) == [service |-> service]

\* A bug: a readiness failure is reported as ready
poll_ready_swallow(self, innerPoll) ==
  IF innerPoll.ready THEN Ready(Ok("unit")) ELSE Pending

\* EndpointService::poll_ready, given what self.service.poll_ready(cx)
\* returned: map_err applies the closure |(e, _)| e to a Ready(Err(..)) and
\* leaves Pending and Ready(Ok(..)) as they are
poll_ready(self, innerPoll) ==
  LET closure(p) == p[1]
      map_err(q) == IF q.ready /\ ~q.res.ok
                    THEN Ready(Err(closure(q.res.val))) ELSE q
  IN map_err(innerPoll)

\* A bug: the inner error is passed on as the transport error
MapClosurePropagate(res) == IF res.ok THEN Ok(res.val) ELSE Err(res.val[1])

\* A bug: the placeholder response replaces the inner response too
MapClosurePlaceholder(res) == Ok(ResponseNew(EmptyBody))

\* The closure given to .map in EndpointService::call
MapClosure(res) ==
  IF res.ok THEN Ok(res.val) ELSE Ok(ResponseNew(EmptyBody))

\* A bug: the request is kept in a slot that the calls in flight share
call_shared(self, req) ==
  LET busy == {i \in 1..Len(futures) : futures[i].fut.state # "done"}
      r == IF busy = {} THEN req
           ELSE futures[CHOOSE i \in busy : \A j \in busy : j <= i].fut.inner.req
  IN [inner |-> ServiceCall(self.service, r), invoked |-> <<r>>,
      state |-> "new", out |-> None, reported |-> 0]

\* EndpointService::call: self.service.call(req).map(closure).boxed_local().
\* `invoked` records the requests given to self.service.call, `reported`
\* counts the outcomes the future has yielded.
call(self, req) ==
  [inner |-> ServiceCall(self.service, req), invoked |-> <<req>>,
   state |-> "new", out |-> None, reported |-> 0]

\* A bug: a failed inner call is made again instead of being reported
poll_retry(fut, isReady) ==
  LET p == InnerPoll(fut.inner, isReady)
  IN IF ~p.ready THEN [fut EXCEPT !.state = "pending"]
     ELSE IF ~p.res.ok /\ Len(fut.invoked) < 2
          THEN [fut EXCEPT !.state = "pending",
                           !.invoked = Append(@, fut.inner.req)]
          ELSE [fut EXCEPT !.state = "done", !.out = Some(MapClosure(p.res)),
                           !.reported = @ + 1]

\* Polling the future returned by call (futures::future::Map): Pending while
\* the inner future is pending, else the closure applied to its result
poll(fut, isReady) ==
  LET p == InnerPoll(fut.inner, isReady)
  IN IF ~p.ready THEN [fut EXCEPT !.state = "pending"]
     ELSE [fut EXCEPT !.state = "done", !.out = Some(MapClosure(p.res)),
                      !.reported = @ + 1]

(***************************************************************************)
(* Endpoint: constructors and builder calls.  Each takes the heap and      *)
(* returns the Endpoint value with the heap it leaves.                     *)
(***************************************************************************)
DefaultService == EndpointServiceNew(ExtractNew(HandlerNew(NotFoundClosure)))

new(h) ==
  LET b == BoxNew(h, DefaultService)
  IN [self |-> [method |-> None, handler |-> b.ptr], heap |-> b.heap]

\* A bug: a method already set is kept
set_method_first_wins(self, m) ==
  IF self.method = None THEN [self EXCEPT !.method = Some(m)] ELSE self

set_method(self, m) == [self EXCEPT !.method = Some(m)]

method(h, m) == LET e == new(h) IN [e EXCEPT !.self = set_method(@, m)]

get(h) == LET e == new(h) IN [e EXCEPT !.self = set_method(@, "GET")]
post(h) == LET e == new(h) IN [e EXCEPT !.self = set_method(@, "POST")]
put(h) == LET e == new(h) IN [e EXCEPT !.self = set_method(@, "PUT")]
patch(h) == LET e == new(h) IN [e EXCEPT !.self = set_method(@, "PATCH")]
delete(h) == LET e == new(h) IN [e EXCEPT !.self = set_method(@, "DELETE")]
head(h) == LET e == new(h) IN [e EXCEPT !.self = set_method(@, "HEAD")]

\* A bug: the handler is only installed while no method filter is set
to_unless_filtered(self, h, f) ==
  IF self.method # None THEN [self |-> self, heap |-> h]
  ELSE LET b == BoxNew(h, EndpointServiceNew(ExtractNew(HandlerNew(f))))
       IN [self |-> [self EXCEPT !.handler = b.ptr],
           heap |-> BoxDrop(b.heap, self.handler)]

\* A bug: the Endpoint is rebuilt from its defaults around the new handler
to_from_new(self, h, f) ==
  LET b == BoxNew(h, EndpointServiceNew(ExtractNew(HandlerNew(f))))
  IN [self |-> [method |-> None, handler |-> b.ptr],
      heap |-> BoxDrop(b.heap, self.handler)]

to(self, h, f) ==
  LET b == BoxNew(h, EndpointServiceNew(ExtractNew(HandlerNew(f))))
  IN [self |-> [self EXCEPT !.handler = b.ptr],
      heap |-> BoxDrop(b.heap, self.handler)]

(***************************************************************************)
(* State machine.  hist[e] is history: the last public operation called on *)
(* the Endpoint of slot e, the argument of the most recent set_method call *)
(* (the constructors method, get, ... make one), the closure of the most   *)
(* recent `to` call, and whether that last operation was a set_method call *)
(* that replaced a different method.                                       *)
(***************************************************************************)
NoHist == [lastOp |-> "none", lastSet |-> None, lastTo |-> None, overwrote |-> FALSE]

Init ==
  /\ endpoints = [e \in Slots |-> None]
  /\ heap = [a \in Addrs |-> None]
  /\ hist = [e \in Slots |-> NoHist]
  /\ futures = <<>>
  /\ readiness = None

Constructed(e) == endpoints[e] # None
EndpointOf(e) == endpoints[e][1]
\* the EndpointService behind the Endpoint's box
ServiceOf(e) == heap[EndpointOf(e).handler][1]

Construct(e, r, op, m) ==
  /\ ~Constructed(e)
  /\ endpoints' = [endpoints EXCEPT ![e] = Some(r.self)]
  /\ heap' = r.heap
  /\ hist' = [hist EXCEPT ![e] = [NoHist EXCEPT !.lastOp = op, !.lastSet = m]]
  /\ UNCHANGED <<futures, readiness>>

DoNew(e) == Construct(e, new(heap), "new", None)
DoMethod(e) == \E m \in Methods : Construct(e, method(heap, m), "method", Some(m))
DoGet(e) == Construct(e, get(heap), "get", Some("GET"))
DoPost(e) == Construct(e, post(heap), "post", Some("POST"))
DoPut(e) == Construct(e, put(heap), "put", Some("PUT"))
DoPatch(e) == Construct(e, patch(heap), "patch", Some("PATCH"))
DoDelete(e) == Construct(e, delete(heap), "delete", Some("DELETE"))
DoHead(e) == Construct(e, head(heap), "head", Some("HEAD"))

DoSetMethod(e, m) ==
  /\ Constructed(e)
  /\ endpoints' = [endpoints EXCEPT ![e] = Some(set_method(EndpointOf(e), m))]
  /\ hist' = [hist EXCEPT ![e].lastOp = "set_method", ![e].lastSet = Some(m),
                          ![e].overwrote = hist[e].lastSet \notin {None, Some(m)}]
  /\ UNCHANGED <<heap, futures, readiness>>

DoTo(e, f) ==
  /\ Constructed(e)
  /\ LET r == to(EndpointOf(e), heap, f)
     IN /\ endpoints' = [endpoints EXCEPT ![e] = Some(r.self)]
        /\ heap' = r.heap
  /\ hist' = [hist EXCEPT ![e].lastOp = "to", ![e].lastTo = Some(f),
                          ![e].overwrote = FALSE]
  /\ UNCHANGED <<futures, readiness>>

\* The caller checks readiness of the Endpoint's handler
DoPollReady(e) ==
  /\ Constructed(e)
  /\ \E ip \in InnerReadiness :
       readiness' = Some([inner |-> ip, outer |-> poll_ready(ServiceOf(e), ip)])
  /\ UNCHANGED <<endpoints, heap, hist, futures>>

\* The caller invokes the Endpoint's handler with a request and keeps the
\* future.  arg, svc and unconfigured are history: the request given, the
\* service called, and whether `to` had never been called on the Endpoint.
DoCall(e, req) ==
  /\ Constructed(e)
  /\ Len(futures) < MaxInFlight
  /\ futures' = Append(futures, [fut |-> call(ServiceOf(e), req), arg |-> req,
                                 svc |-> ServiceOf(e),
                                 unconfigured |-> hist[e].lastTo = None])
  /\ UNCHANGED <<endpoints, heap, hist, readiness>>

\* The caller polls a future it holds that has not completed
DoPollFuture(i) ==
  /\ i \in 1..Len(futures)
  /\ futures[i].fut.state # "done"
  /\ \E isReady \in BOOLEAN :
       futures' = [futures EXCEPT ![i].fut = poll(@, isReady)]
  /\ UNCHANGED <<endpoints, heap, hist, readiness>>

Build(e) ==
  \/ DoNew(e) \/ DoMethod(e) \/ DoGet(e) \/ DoPost(e) \/ DoPut(e)
  \/ DoPatch(e) \/ DoDelete(e) \/ DoHead(e)
  \/ \E m \in Methods : DoSetMethod(e, m)
  \/ \E f \in UserHandlers : DoTo(e, f)

\* Builder phase: the application configures its Endpoints
Next == \E e \in Slots : Build(e)

Spec == Init /\ [][Next]_vars

\* One Endpoint is configured and its handler is invoked
NextServe ==
  \/ \E e \in ServeSlots : Build(e)
  \/ \E e \in ServeSlots, req \in Requests : DoCall(e, req)
  \/ \E i \in 1..MaxInFlight : DoPollFuture(i)

SpecServe == Init /\ [][NextServe]_vars

\* One Endpoint is configured and its readiness is checked
NextReady ==
  \/ \E e \in ServeSlots : Build(e)
  \/ \E e \in ServeSlots : DoPollReady(e)

SpecReady == Init /\ [][NextReady]_vars

(***************************************************************************)
(* Properties                                                              *)
(***************************************************************************)
Calls == {futures[i] : i \in 1..Len(futures)}
Done(c) == c.fut.state = "done" /\ c.fut.out # None
\* what the inner unit of the service called yields for the request given
InnerResult(c) == ExtractCall(c.svc.service, c.arg)
\* the outcome of an invocation of svc with req that runs on its own
Respond(svc, req) == MapClosure(ExtractCall(svc.service, req))

\* C1: every completed invocation made on an Endpoint on which `to` had never
\* been called succeeded with status 404 Not Found and an empty body,
\* whatever the request.
C1_UnconfiguredIs404 ==
  \A c \in Calls :
    c.unconfigured /\ c.fut.state = "done" =>
      /\ c.fut.out # None
      /\ c.fut.out[1].ok
      /\ c.fut.out[1].val.status = NOT_FOUND
      /\ c.fut.out[1].val.body = EmptyBody

C1_Witness ==
  /\ Len(futures) >= 2
  /\ hist[1].lastOp = "set_method"
  /\ \A i \in 1..2 : futures[i].unconfigured /\ Done(futures[i])
  /\ futures[1].arg # futures[2].arg
  /\ futures[2].fut.out[1].val.status = NOT_FOUND

\* C2: every completed invocation whose inner unit failed with (error,
\* request) succeeded, with the placeholder response: status 200, empty
\* body, the same for every error and every returned request.
C2_InnerFailureIsPlaceholder ==
  \A c \in Calls :
    c.fut.state = "done" /\ ~InnerResult(c).ok =>
      /\ c.fut.out # None
      /\ c.fut.out[1].ok
      /\ c.fut.out[1].val.status = OK
      /\ c.fut.out[1].val.body = EmptyBody

C2_Witness ==
  /\ Len(futures) >= 2
  /\ Done(futures[1]) /\ Done(futures[2])
  /\ InnerResult(futures[1]) = Err(<<"e1", "reqB">>)
  /\ InnerResult(futures[2]) = Err(<<"e2", "reqA">>)
  /\ futures[1].fut.out = futures[2].fut.out

\* C3: every completed invocation of a handler registered with `to` whose
\* inner unit succeeded yields exactly the inner unit's response (the
\* conversion of the handler's return value), status and body unchanged.
C3_SuccessIsForwarded ==
  \A c \in Calls :
    LET f == c.svc.service.service.hnd
    IN c.fut.state = "done" /\ f \in UserHandlers /\ InnerResult(c).ok =>
         /\ c.fut.out # None
         /\ c.fut.out[1].ok
         /\ c.fut.out[1].val =
              to_response(FactoryCall(f, FromRequest(f, c.arg).val).val)

C3_Witness ==
  /\ Len(futures) >= 2
  /\ Done(futures[1]) /\ Done(futures[2])
  /\ futures[1].svc.service.service.hnd = "strict"
  /\ futures[1].fut.out[1] = Ok([status |-> OK, body |-> "reqA"])
  /\ futures[2].svc.service.service.hnd = "flaky"
  /\ futures[2].fut.out[1] = Ok([status |-> NOT_FOUND, body |-> "reqB"])

\* C4: the readiness check of the EndpointService mirrors the inner one: it
\* is pending exactly when the inner one is, ready-ok exactly when the inner
\* one is, and when the inner one fails with (e, request) it fails with e.
C4_ReadinessMirrorsInner ==
  readiness # None =>
    LET i == readiness[1].inner
        o == readiness[1].outer
    IN /\ o.ready <=> i.ready
       /\ i.ready => (o.res.ok <=> i.res.ok)
       /\ i.ready /\ ~i.res.ok => o.res.val = i.res.val[1]

C4_Witness ==
  /\ readiness # None
  /\ readiness[1].inner = Ready(Err(<<"e2", "reqB">>))
  /\ readiness[1].outer = Ready(Err("e2"))

\* C5: the method field is Some(verb) right after a verb constructor,
\* Some(m) after method(m), None after new(), and always Some(m) for the m of
\* the most recent set_method call (None when there was none).
C5_MethodIsLastSet ==
  \A e \in Slots :
    Constructed(e) =>
      LET m == EndpointOf(e).method
          op == hist[e].lastOp
      IN /\ m = hist[e].lastSet
         /\ op = "new" => m = None
         /\ op = "method" => m # None /\ m[1] \in Methods
         /\ op = "get" => m = Some("GET")
         /\ op = "post" => m = Some("POST")
         /\ op = "put" => m = Some("PUT")
         /\ op = "patch" => m = Some("PATCH")
         /\ op = "delete" => m = Some("DELETE")
         /\ op = "head" => m = Some("HEAD")

C5_Witness ==
  \E e \in Slots :
    /\ Constructed(e)
    /\ hist[e].lastOp = "set_method"
    /\ hist[e].overwrote
    /\ EndpointOf(e).method = Some("OPTIONS")

\* C6: each invocation gives its request to the inner unit exactly once, and
\* yields exactly one outcome, when it completes; a failure of the inner
\* unit is not followed by a second inner call.
C6_OneAttemptOneOutcome ==
  \A c \in Calls :
    /\ c.fut.invoked = <<c.arg>>
    /\ c.fut.reported = IF c.fut.state = "done" THEN 1 ELSE 0
    /\ c.fut.state = "done" <=> c.fut.out # None

C6_Witness ==
  \E c \in Calls :
    /\ Done(c)
    /\ ~InnerResult(c).ok
    /\ c.fut.invoked = <<c.arg>>
    /\ c.fut.reported = 1

\* C7: whatever other invocations are in flight and however their steps
\* interleave, a completed invocation has the outcome that the service it
\* was made on gives for its request when run alone.
C7_InvocationsAreIndependent ==
  \A c \in Calls :
    c.fut.state = "done" => c.fut.out = Some(Respond(c.svc, c.arg))

C7_Witness ==
  /\ Len(futures) >= 2
  /\ futures[1].fut.state = "pending"
  /\ Done(futures[2])
  /\ futures[1].svc = futures[2].svc
  /\ futures[1].svc.service.service.hnd = "strict"
  /\ futures[1].arg = "reqA" /\ futures[2].arg = "reqB"

\* C8: at every point of the builder phase each Endpoint owns one live
\* EndpointService, no two Endpoints have the same one, and there is no
\* live EndpointService besides these.
C8_OneServicePerEndpoint ==
  LET built == {e \in Slots : Constructed(e)}
  IN /\ \A e \in built : heap[EndpointOf(e).handler] # None
     /\ \A e1, e2 \in built :
          e1 # e2 => EndpointOf(e1).handler # EndpointOf(e2).handler
     /\ Cardinality(Live(heap)) = Cardinality(built)

C8_Witness ==
  /\ \A e \in Slots : Constructed(e) /\ hist[e].lastTo # None
  /\ hist[1].lastOp = "to" /\ hist[2].lastOp = "set_method"
  /\ EndpointOf(1).handler # EndpointOf(2).handler

\* C9: a step after which the last call on an Endpoint is set_method leaves
\* its handler as it was, one after which it is `to` leaves its method as it
\* was; and two Endpoints given the same method and the same handler, in
\* whatever order, have the same method and respond alike to every request.
C9_SameConfiguration(e1, e2) ==
  /\ Constructed(e1) /\ Constructed(e2)
  /\ hist[e1].lastSet = hist[e2].lastSet
  /\ hist[e1].lastTo = hist[e2].lastTo

C9_OrderIndependent ==
  /\ [][\A e \in Slots :
          Constructed(e) =>
            /\ hist'[e].lastOp = "set_method" =>
                 endpoints'[e][1].handler = endpoints[e][1].handler
            /\ hist'[e].lastOp = "to" =>
                 endpoints'[e][1].method = endpoints[e][1].method]_vars
  /\ [](\A e1, e2 \in Slots :
          C9_SameConfiguration(e1, e2) =>
            /\ EndpointOf(e1).method = EndpointOf(e2).method
            /\ \A req \in Requests :
                 Respond(ServiceOf(e1), req) = Respond(ServiceOf(e2), req))

C9_Witness ==
  /\ C9_SameConfiguration(1, 2)
  /\ hist[1].lastOp = "to" /\ hist[2].lastOp = "set_method"
  /\ hist[1].lastSet = Some("OPTIONS") /\ hist[1].lastTo = Some("strict")
  /\ EndpointOf(1).method = Some("OPTIONS")
  /\ Respond(ServiceOf(2), "reqA") = Ok([status |-> OK, body |-> "reqA"])

\* C10: no builder call takes an Endpoint back: once set_method has been
\* called method is never None again, once `to` has been called the handler
\* is never the default one again, and an Endpoint that is not in the
\* default state does not enter it.
C10_Default(ep, h) ==
  ep.method = None /\ h[ep.handler] = Some(DefaultService)

C10_OneWay ==
  [][\A e \in Slots :
       Constructed(e) =>
         /\ hist[e].lastSet # None => endpoints'[e][1].method # None
         /\ hist[e].lastTo # None =>
              heap'[endpoints'[e][1].handler] # Some(DefaultService)
         /\ ~C10_Default(endpoints[e][1], heap) =>
              ~C10_Default(endpoints'[e][1], heap')]_vars

C10_Witness ==
  \E e \in Slots :
    /\ Constructed(e)
    /\ hist[e].lastOp = "set_method"
    /\ hist[e].lastSet = Some("POST")
    /\ hist[e].lastTo = Some("flaky")
    /\ EndpointOf(e).method = Some("POST")
    /\ ~C10_Default(EndpointOf(e), heap)

====
